---- MODULE Spec2Model ----
(***************************************************************************)
(* Model of epubtokens.py: TokenCounterApp.start_processing and the        *)
(* helpers it calls (validate_inputs, get_epub_files, process_epub,        *)
(* _get_epub_title, _process_epub_content, calculate_tokens).              *)
(*                                                                         *)
(* One TokenCounterApp instance lives for the whole behaviour; the user    *)
(* may press Start several times (runs).  A run is split at the points     *)
(* where the handler touches the outside world (archive read + csv row,    *)
(* shutil.move, progress update), so that the order of these effects is    *)
(* visible in the reachable states.                                        *)
(***************************************************************************)
EXTENDS Integers, Sequences, FiniteSets, TLC

(* ---------------------------- bounds ---------------------------------- *)
MaxFiles    == 2    \* directory entries in the source folder
MaxTokens   == 3    \* largest token count an archive can have
MaxRuns     == 2    \* presses of Start on the same instance
MaxInputLen == 2    \* characters typed into the token field

(* ------------------------ program constants --------------------------- *)
MAX_FILE_SIZE == 104857600     \* 100 * 1024 * 1024

\* Python's None / a value that is present
None == <<>>
Some(v) == <<v>>
Val(o) == o[1]

Files == 1..MaxFiles

(* --------------------------- token field ------------------------------ *)
Chars  == {"0", "2", ",", "-", "x"}
Digits == {"0", "2"}

TokenInputs == UNION {[1..n -> Chars] : n \in 0..MaxInputLen}

\* str.replace(",", "")
StripCommas(s) == SelectSeq(s, LAMBDA c : c # ",")

DigitVal(c) == IF c = "2" THEN 2 ELSE 0

RECURSIVE DigitsValue(_)
DigitsValue(s) ==
    IF s = <<>> THEN 0
    ELSE 10 * DigitsValue(SubSeq(s, 1, Len(s) - 1)) + DigitVal(s[Len(s)])

AllDigits(s) == Len(s) >= 1 /\ \A i \in 1..Len(s) : s[i] \in Digits

\* int(text): an optional sign followed by at least one digit, else ValueError
IntOf(s) ==
    IF AllDigits(s) THEN Some(DigitsValue(s))
    ELSE IF Len(s) >= 2 /\ s[1] = "-" /\ AllDigits(Tail(s))
         THEN Some(0 - DigitsValue(Tail(s)))
         ELSE None

\* int(self.token_input.text().replace(",", ""))
ParseTokens(text) == IntOf(StripCommas(text))

(* ------------------------ directory entries --------------------------- *)
\* What one entry of the source folder is: its name's extension, whether it
\* is a regular file, its size in bytes, whether ebooklib can read it, its
\* DC title metadata ("absent": no title element, "": an empty one), whether
\* its xhtml items decode to any text, and what tiktoken returns for that
\* text (None: encode raises).
Entry(ext, is_file, size, parses, title, text, tokens) ==
    [ext |-> ext, is_file |-> is_file, size |-> size, parses |-> parses,
     title |-> title, text |-> text, tokens |-> tokens]

Entries ==
    {Entry(".txt", TRUE, 1, TRUE, "Title", TRUE, Some(1)),
     Entry(".epub", FALSE, 1, TRUE, "Title", TRUE, Some(1)),
     Entry(".epub", TRUE, MAX_FILE_SIZE + 1, TRUE, "Title", TRUE, Some(1)),
     Entry(".epub", TRUE, 1, FALSE, "Title", TRUE, Some(1)),
     Entry(".epub", TRUE, 1, TRUE, "Title", FALSE, Some(1)),
     Entry(".epub", TRUE, 1, TRUE, "Title", TRUE, None),
     Entry(".epub", TRUE, 1, TRUE, "", TRUE, Some(1))}
    \cup {Entry(".epub", TRUE, 1, TRUE, "Title", TRUE, Some(c)) : c \in 1..MaxTokens}
    \cup {Entry(".EPUB", TRUE, MAX_FILE_SIZE, TRUE, "absent", TRUE, Some(1))}

\* str.lower() on the extension
Lower(ext) == IF ext = ".EPUB" THEN ".epub" ELSE ext

\* Python truthiness of a title / of a token count
TruthyTitle(t) == t # None /\ t # Some("")
TruthyCount(c) == c # None /\ c # Some(0)

VARIABLES
    archive,          \* what each entry of the source folder is
    loc,              \* where each entry is: "src", "dst" or "gone"
    processed_files,  \* self.processed_files
    token_input,      \* self.token_input.text()
    src_exists,       \* os.path.exists(self.folder_input.text())
    dst_exists,       \* os.path.exists(self.dest_input.text())
    pc,               \* position of start_processing
    runs,             \* presses of Start so far
    max_tokens,       \* local max_tokens
    epub_files,       \* local epub_files
    idx,              \* position of the for loop in epub_files
    cur,              \* <<title, token_count>> of the file in hand
    handled,          \* files handed to process_epub in this run
    csv,              \* rows handed to csv_writer in this run (None: no file)
    on_disk,          \* how many of them have left the file object's buffer
    progress_max,     \* progress_bar.maximum()
    progress_value,   \* progress_bar.value()
    events,           \* values passed to setValue inside the loop, this run
    processed_count,  \* local processed_count
    dialogs,          \* message boxes shown in this run
    opened,           \* files handed to epub.read_epub in this run
    move_calls,       \* files handed to shutil.move in this run
    move_failed       \* files on which shutil.move raised in this run

vars == <<archive, loc, processed_files, token_input, src_exists, dst_exists,
          pc, runs, max_tokens, epub_files, idx, cur, handled, csv, on_disk,
          progress_max, progress_value, events, processed_count, dialogs,
          opened, move_calls, move_failed>>

(* ----------------------------- helpers -------------------------------- *)
\* Path(file_path).name
BaseName(f) == "book" \o ToString(f) \o archive[f].ext

\* _get_epub_title
get_epub_title(f) ==
    IF archive[f].title # "absent" THEN Some(archive[f].title)
    ELSE Some(BaseName(f))

\* calculate_tokens
calculate_tokens(f) == archive[f].tokens

\* _process_epub_content
process_epub_content(f) ==
    IF archive[f].text THEN calculate_tokens(f) ELSE None

\* process_epub: the pair it returns, and whether it got as far as calling
\* epub.read_epub on the file
Result(title, token_count, read) ==
    [title |-> title, token_count |-> token_count, read |-> read]

\* process_epub without the size test of lines 114-117
process_epub_nosize(f) ==
    IF loc[f] # "src" THEN Result(None, None, FALSE)
    ELSE IF ~archive[f].parses THEN Result(None, None, TRUE)
    ELSE Result(get_epub_title(f), process_epub_content(f), TRUE)

process_epub(f) ==
    IF loc[f] # "src" THEN Result(None, None, FALSE)
    ELSE IF archive[f].size > MAX_FILE_SIZE THEN Result(None, None, FALSE)
    ELSE IF ~archive[f].parses THEN Result(None, None, TRUE)
    ELSE Result(get_epub_title(f), process_epub_content(f), TRUE)

\* line 242
has_record(title, token_count) ==
    TruthyTitle(title) /\ TruthyCount(token_count)

\* line 244 with <= for <
qualifies_le(token_count, limit) == token_count <= limit

\* line 244
qualifies(token_count, limit) == token_count < limit

\* line 153 without entry.is_file()
is_candidate_anyentry(f) ==
    loc[f] = "src" /\ Lower(archive[f].ext) = ".epub"

\* the test of get_epub_files on one directory entry
is_candidate(f) ==
    loc[f] = "src" /\ archive[f].is_file /\ Lower(archive[f].ext) = ".epub"

\* the loop of get_epub_files over the first n entries os.scandir yields
\* (the entries are numbered in the order of enumeration)
RECURSIVE scan(_)
scan(n) ==
    IF n = 0 THEN <<>>
    ELSE IF is_candidate(n) THEN Append(scan(n - 1), n) ELSE scan(n - 1)

\* get_epub_files
get_epub_files(scan_fails) == IF scan_fails THEN <<>> ELSE scan(MaxFiles)

\* validate_inputs with < for <= on line 163
validate_inputs_neg(text, src, dst) ==
    LET n == ParseTokens(text) IN
    IF n = None THEN <<FALSE, "Invalid token count">>
    ELSE IF Val(n) < 0 THEN <<FALSE, "Token count must be positive">>
    ELSE IF ~src THEN <<FALSE, "Source folder does not exist">>
    ELSE IF ~dst THEN <<FALSE, "Destination folder does not exist">>
    ELSE <<TRUE, "">>

\* validate_inputs: <<is_valid, error_message>>
validate_inputs(text, src, dst) ==
    LET n == ParseTokens(text) IN
    IF n = None THEN <<FALSE, "Invalid token count">>
    ELSE IF Val(n) <= 0 THEN <<FALSE, "Token count must be positive">>
    ELSE IF ~src THEN <<FALSE, "Source folder does not exist">>
    ELSE IF ~dst THEN <<FALSE, "Destination folder does not exist">>
    ELSE <<TRUE, "">>

Header == <<"Title", "Token Count", "File Path">>

(* --------------------------- initial state ---------------------------- *)
\* TokenCounterApp.__init__: an empty processed set, an idle window.  The
\* source folder holds MaxFiles entries of any kind.
Init ==
    /\ archive \in [Files -> Entries]
    /\ loc = [f \in Files |-> "src"]
    /\ processed_files = {}
    /\ token_input = <<>>
    /\ src_exists = TRUE
    /\ dst_exists = TRUE
    /\ pc = "Idle"
    /\ runs = 0
    /\ max_tokens = 0
    /\ epub_files = <<>>
    /\ idx = 0
    /\ cur = <<None, None>>
    /\ handled = {}
    /\ csv = <<>>
    /\ on_disk = 0
    /\ progress_max = 0
    /\ progress_value = 0
    /\ events = <<>>
    /\ processed_count = 0
    /\ dialogs = <<>>
    /\ opened = {}
    /\ move_calls = {}
    /\ move_failed = {}

(* ------------------------- start_processing --------------------------- *)
\* Where the window waits for a press of Start.  After "Failed" it does not:
\* the exception has left the slot and ends the application.
Resting == {"Idle", "Aborted", "Nothing", "Completed"}

\* The part every press of Start shares: the fields as the user left them
\* and the bookkeeping of a new run (the locals of the previous call are
\* gone).
Press(text, src, dst) ==
    /\ pc \in Resting
    /\ runs < MaxRuns
    /\ runs' = runs + 1
    /\ token_input' = text
    /\ src_exists' = src
    /\ dst_exists' = dst
    /\ cur' = <<None, None>>
    /\ handled' = {}
    /\ on_disk' = 0
    /\ events' = <<>>
    /\ opened' = {}
    /\ move_calls' = {}
    /\ move_failed' = {}
    /\ UNCHANGED <<archive, loc>>

\* lines 209-212: validation fails
Abort(text, src, dst) ==
    /\ Press(text, src, dst)
    /\ ~validate_inputs(text, src, dst)[1]
    /\ dialogs' = <<validate_inputs(text, src, dst)[2]>>
    /\ pc' = "Aborted"
    /\ csv' = <<>>
    /\ max_tokens' = 0
    /\ epub_files' = <<>>
    /\ idx' = 0
    /\ processed_count' = 0
    /\ UNCHANGED <<processed_files, progress_max, progress_value>>

\* lines 219-222: the scan yields nothing
NothingToDo(text, src, dst, scan_fails) ==
    /\ Press(text, src, dst)
    /\ validate_inputs(text, src, dst)[1]
    /\ max_tokens' = Val(ParseTokens(text))
    /\ epub_files' = get_epub_files(scan_fails)
    /\ epub_files' = <<>>
    /\ dialogs' = <<"No EPUB files found!">>
    /\ pc' = "Nothing"
    /\ csv' = <<>>
    /\ idx' = 0
    /\ processed_count' = 0
    /\ UNCHANGED <<processed_files, progress_max, progress_value>>

\* open() raising only after the loop has marked the candidates
OpenFails_late(text, src, dst) ==
    /\ Press(text, src, dst)
    /\ validate_inputs(text, src, dst)[1]
    /\ max_tokens' = Val(ParseTokens(text))
    /\ epub_files' = get_epub_files(FALSE)
    /\ epub_files' # <<>>
    /\ progress_max' = Len(epub_files')
    /\ progress_value' = 0
    /\ processed_count' = 0
    /\ dialogs' = <<>>
    /\ pc' = "Failed"
    /\ csv' = <<>>
    /\ idx' = 0
    /\ processed_files' =
           processed_files \cup {epub_files'[i] : i \in 1..Len(epub_files')}

\* lines 225-233: open() raises and the exception leaves start_processing
OpenFails(text, src, dst) ==
    /\ Press(text, src, dst)
    /\ validate_inputs(text, src, dst)[1]
    /\ max_tokens' = Val(ParseTokens(text))
    /\ epub_files' = get_epub_files(FALSE)
    /\ epub_files' # <<>>
    /\ progress_max' = Len(epub_files')
    /\ progress_value' = 0
    /\ processed_count' = 0
    /\ dialogs' = <<>>
    /\ pc' = "Failed"
    /\ csv' = <<>>
    /\ idx' = 0
    /\ UNCHANGED processed_files

\* lines 225-235: the report is opened and the header handed to the writer
Begin(text, src, dst) ==
    /\ Press(text, src, dst)
    /\ validate_inputs(text, src, dst)[1]
    /\ max_tokens' = Val(ParseTokens(text))
    /\ epub_files' = get_epub_files(FALSE)
    /\ epub_files' # <<>>
    /\ progress_max' = Len(epub_files')
    /\ progress_value' = 0
    /\ processed_count' = 0
    /\ dialogs' = <<>>
    /\ idx' = 1
    /\ pc' = "Loop"
    /\ csv' = <<Header>>
    /\ UNCHANGED processed_files

InLoop == pc = "Loop" /\ idx <= Len(epub_files)
File == epub_files[idx]

\* lines 238-239
Skip ==
    /\ InLoop
    /\ File \in processed_files
    /\ idx' = idx + 1
    /\ UNCHANGED <<archive, loc, processed_files, token_input, src_exists,
                   dst_exists, pc, runs, max_tokens, epub_files, cur, handled,
                   csv, on_disk, progress_max, progress_value, events,
                   processed_count, dialogs, opened, move_calls, move_failed>>

\* writerow called a second time for the same file
writerow_twice(row, full) ==
    /\ csv' = Append(Append(csv, row), row)
    /\ on_disk' = IF full THEN Len(csv) + 2 ELSE on_disk

\* csv_writer.writerow: the row goes to the file object, which writes its
\* buffer out only when the buffer is full
writerow(row, full) ==
    /\ csv' = Append(csv, row)
    /\ on_disk' = IF full THEN Len(csv) + 1 ELSE on_disk

\* lines 241-244; full: this row fills the file object's buffer
ProcessFile(full) ==
    /\ InLoop
    /\ File \notin processed_files
    /\ cur' = <<process_epub(File).title, process_epub(File).token_count>>
    /\ handled' = handled \cup {File}
    /\ opened' = IF process_epub(File).read THEN opened \cup {File} ELSE opened
    /\ IF has_record(cur'[1], cur'[2])
       THEN /\ writerow(<<Val(cur'[1]), Val(cur'[2]), File>>, full)
            /\ pc' = IF qualifies(Val(cur'[2]), max_tokens)
                     THEN "Move" ELSE "Mark"
       ELSE /\ UNCHANGED <<csv, on_disk>>
            /\ ~full
            /\ pc' = "Mark"
    /\ UNCHANGED <<archive, loc, processed_files, token_input, src_exists,
                   dst_exists, runs, max_tokens, epub_files, idx,
                   progress_max, progress_value, events, processed_count,
                   dialogs, move_calls, move_failed>>

\* lines 246-248: shutil.move succeeds
MoveOk ==
    /\ pc = "Move"
    /\ loc' = [loc EXCEPT ![File] = "dst"]
    /\ move_calls' = move_calls \cup {File}
    /\ pc' = "Mark"
    /\ UNCHANGED <<archive, processed_files, token_input, src_exists,
                   dst_exists, runs, max_tokens, epub_files, idx, cur, handled, csv,
                   on_disk, progress_max, progress_value, events,
                   processed_count, dialogs, opened, move_failed>>

\* shutil.move raising with no try around it
MoveFails_raises ==
    /\ pc = "Move"
    /\ move_calls' = move_calls \cup {File}
    /\ move_failed' = move_failed \cup {File}
    /\ pc' = "Failed"
    /\ UNCHANGED <<archive, loc, processed_files, token_input, src_exists,
                   dst_exists, runs, max_tokens, epub_files, idx, cur,
                   handled, csv, on_disk, progress_max, progress_value,
                   events, processed_count, dialogs, opened>>

\* lines 246-250: shutil.move raises
MoveFails ==
    /\ pc = "Move"
    /\ move_calls' = move_calls \cup {File}
    /\ move_failed' = move_failed \cup {File}
    /\ pc' = "Mark"
    /\ UNCHANGED <<archive, loc, processed_files, token_input, src_exists,
                   dst_exists, runs, max_tokens, epub_files, idx, cur, handled, csv,
                   on_disk, progress_max, progress_value, events,
                   processed_count, dialogs, opened>>

\* lines 252-255
Mark ==
    /\ pc = "Mark"
    /\ processed_files' = processed_files \cup {File}
    /\ processed_count' = processed_count + 1
    /\ progress_value' = processed_count + 1
    /\ events' = Append(events, processed_count + 1)
    /\ idx' = idx + 1
    /\ pc' = "Loop"
    /\ UNCHANGED <<archive, loc, token_input, src_exists, dst_exists, runs,
                   max_tokens, epub_files, cur, handled, csv, on_disk, progress_max,
                   dialogs, opened, move_calls, move_failed>>

\* end of the with block and lines 257-261
Finish ==
    /\ pc = "Loop"
    /\ idx > Len(epub_files)
    /\ on_disk' = Len(csv)
    /\ dialogs' = <<"Done">>
    /\ pc' = "Completed"
    /\ UNCHANGED <<archive, loc, processed_files, token_input, src_exists,
                   dst_exists, runs, max_tokens, epub_files, idx, cur, handled, csv,
                   progress_max, progress_value, events, processed_count,
                   opened, move_calls, move_failed>>

(* ---------------------------- environment ----------------------------- *)
\* The process is terminated from outside in the middle of a run: what is
\* still in the file object's buffer never reaches the report.
Kill ==
    /\ pc \in {"Loop", "Move", "Mark"}
    /\ pc' = "Killed"
    /\ UNCHANGED <<archive, loc, processed_files, token_input, src_exists,
                   dst_exists, runs, max_tokens, epub_files, idx, cur, handled, csv,
                   on_disk, progress_max, progress_value, events,
                   processed_count, dialogs, opened, move_calls, move_failed>>

\* A candidate the loop has not reached yet is removed from the source
\* folder by someone else (the case line 109 tests for).
Vanish(f) ==
    /\ InLoop
    /\ \E i \in idx..Len(epub_files) : epub_files[i] = f
    /\ f \notin processed_files
    /\ loc[f] = "src"
    /\ loc' = [loc EXCEPT ![f] = "gone"]
    /\ UNCHANGED <<archive, processed_files, token_input, src_exists,
                   dst_exists, pc, runs, max_tokens, epub_files, idx, cur,
                   handled, csv, on_disk, progress_max, progress_value, events,
                   processed_count, dialogs, opened, move_calls, move_failed>>

(* -------------------------- specifications ---------------------------- *)
\* What the user may have in the three fields when pressing Start in the
\* pipeline runs: <<token field, source exists, destination exists>>.
RunInputs ==
    {<<<<"x">>, TRUE, TRUE>>, <<<<"0">>, TRUE, TRUE>>,
     <<<<"2">>, FALSE, TRUE>>, <<<<"2">>, TRUE, FALSE>>,
     <<<<"2">>, TRUE, TRUE>>, <<<<"2", ",", "2">>, TRUE, TRUE>>}

\* every token field up to MaxInputLen characters
AllInputs == TokenInputs \X BOOLEAN \X BOOLEAN

Start(inputs) ==
    \/ \E i \in inputs : Abort(i[1], i[2], i[3])
    \/ \E i \in inputs, scan_fails \in BOOLEAN :
           NothingToDo(i[1], i[2], i[3], scan_fails)
    \/ \E i \in inputs : OpenFails(i[1], i[2], i[3])
    \/ \E i \in inputs : Begin(i[1], i[2], i[3])

Loop ==
    \/ Skip
    \/ MoveOk
    \/ MoveFails
    \/ Mark
    \/ Finish

\* The pipeline on its own: rows far smaller than the file object's buffer.
Next ==
    \/ Start(RunInputs)
    \/ Loop
    \/ ProcessFile(FALSE)

Spec == Init /\ [][Next]_vars

\* The pipeline in an environment that may terminate the process and remove
\* files, with rows of any length.
NextEnv ==
    \/ Start(RunInputs)
    \/ Loop
    \/ \E full \in BOOLEAN : ProcessFile(full)
    \/ Kill
    \/ \E f \in Files : Vanish(f)

SpecEnv == Init /\ [][NextEnv]_vars

\* The pipeline with the handler running on once it has started: nothing
\* in the loop waits for anything.
SpecLive == Spec /\ WF_vars(Loop \/ ProcessFile(FALSE))

\* Every content of the token field, over a folder of readable books.
InitInputs ==
    /\ Init
    /\ \A f \in Files : archive[f].parses /\ archive[f].text
                        /\ archive[f].title = "Title"
                        /\ archive[f].tokens \in {Some(1), Some(MaxTokens)}

\* The last press of Start takes any content of the three fields.
PressInputs == IF runs = MaxRuns - 1 THEN AllInputs ELSE RunInputs

NextInputs ==
    \/ Start(PressInputs)
    \/ Loop
    \/ ProcessFile(FALSE)

SpecInputs == InitInputs /\ [][NextInputs]_vars

(* ======================= the claims, one by one ======================= *)
\* The candidates of this run, as a set.
Candidates == {epub_files[i] : i \in 1..Len(epub_files)}

\* The rows of the report that name file f.
RowsOf(f) == {i \in 2..Len(csv) : csv[i][3] = f}

\* A file the run extracted and counted: it was handed to process_epub in
\* this run, it is no larger than the limit, the archive can be read, its
\* title is not empty, its markup holds text and the text can be counted.
Counted(f) ==
    /\ f \in handled
    /\ archive[f].size <= MAX_FILE_SIZE
    /\ archive[f].parses
    /\ archive[f].title # ""
    /\ archive[f].text
    /\ archive[f].tokens # None

CountOf(f) == Val(archive[f].tokens)

\* The title the report shows for f.
TitleOf(f) ==
    IF archive[f].title = "absent" THEN BaseName(f) ELSE archive[f].title

CountedFiles == SelectSeq(epub_files, LAMBDA f : Counted(f))

C7_Progress ==
    pc = "Completed" =>
        /\ events = [i \in 1..Len(epub_files) |-> i]
        /\ progress_value = progress_max
        /\ progress_max = Len(epub_files)
        /\ processed_count = Len(epub_files)

(* ------------------------------- C10 ---------------------------------- *)
\* C10: the processed set is empty when the loop of a run begins, and a
\* completed run has handed every one of its candidates to process_epub.
C10_PerRun ==
    /\ (pc = "Loop" /\ idx = 1) => processed_files = {}
    /\ pc = "Completed" => Candidates \subseteq handled

(* ------------------------------- C2 ----------------------------------- *)
\* C2: in a state an interruption of the run leaves behind, every file that
\* was handed to shutil.move has its row in the report on disk.
C2_Persisted ==
    pc = "Killed" =>
        \A f \in move_calls : \E i \in RowsOf(f) : i <= on_disk

(* ------------------------------- C4 ----------------------------------- *)
\* the four ways the claim says validation fails
InvalidInputs(text, src, dst) ==
    \/ ParseTokens(text) = None
    \/ Val(ParseTokens(text)) <= 0
    \/ ~src
    \/ ~dst

\* C4: a press of Start with a token field that is no integer once commas
\* are stripped, a threshold that is not positive, a missing source or a
\* missing destination folder ends the run with one error message, no
\* report, no file read or moved, no progress event and the processed set
\* as it was.
C4_Validation ==
    [][(runs' = runs + 1
        /\ InvalidInputs(token_input', src_exists', dst_exists'))
       => /\ pc' = "Aborted"
          /\ Len(dialogs') = 1
          /\ csv' = <<>>
          /\ handled' = {}
          /\ opened' = {}
          /\ move_calls' = {}
          /\ events' = <<>>
          /\ progress_value' = progress_value
          /\ loc' = loc
          /\ processed_files' = processed_files]_vars

\* a run aborted for a threshold of zero typed with a comma, on an instance
\* whose processed set is not empty
C4_Witness ==
    /\ pc = "Aborted"
    /\ Len(token_input) = 2
    /\ ParseTokens(token_input) = Some(0)
    /\ src_exists /\ dst_exists
    /\ processed_files # {}

(* ------------------------------- C5 ----------------------------------- *)
\* A candidate handed to process_epub on which extraction or counting
\* fails, for one of the five reasons the claim lists.
Unreadable(f) ==
    /\ f \in handled
    /\ \/ loc[f] = "gone"
       \/ archive[f].size > MAX_FILE_SIZE
       \/ ~archive[f].parses
       \/ ~archive[f].text
       \/ archive[f].tokens = None

AtFile(f) == idx <= Len(epub_files) /\ epub_files[idx] = f

\* C5: a candidate on which extraction or counting fails has no row, is
\* never handed to shutil.move and is not relocated; it is added to the
\* processed set in the very next step of the run, which then goes on to
\* the next candidate, and it is counted in the progress notifications; an
\* oversized file is never handed to epub.read_epub.
C5_Skips ==
    /\ [](\A f \in Files : Unreadable(f) =>
            /\ RowsOf(f) = {}
            /\ f \notin move_calls
            /\ loc[f] # "dst"
            /\ f \in processed_files \/ (AtFile(f) /\ pc \in {"Mark", "Killed"})
            /\ archive[f].size > MAX_FILE_SIZE => f \notin opened)
    /\ [](events = [i \in 1..Cardinality(handled \cap processed_files) |-> i])
    /\ [][\A f \in Files :
            (Unreadable(f) /\ AtFile(f) /\ pc = "Mark" /\ pc' # "Killed")
            => /\ pc' = "Loop"
               /\ idx' = idx + 1
               /\ f \in processed_files'
               /\ events' = Append(events, Len(events) + 1)]_vars

\* a completed run over an oversized file and a file that vanished, both
\* marked processed and counted
C5_Witness ==
    /\ pc = "Completed"
    /\ Len(events) = 2
    /\ \E f, g \in Files :
          /\ Unreadable(f) /\ archive[f].size > MAX_FILE_SIZE
          /\ Unreadable(g) /\ loc[g] = "gone"
          /\ {f, g} \subseteq processed_files

(* ------------------------------- C6 ----------------------------------- *)
\* C6: a file whose move failed keeps its one row, stays in the source
\* folder and is added to the processed set in the next step; the run is
\* not aborted, it reaches completion, and at completion every candidate is
\* in the processed set and the handled ones are counted.
C6_MoveFailure ==
    /\ [](\A f \in move_failed :
            /\ Cardinality(RowsOf(f)) = 1
            /\ loc[f] = "src"
            /\ f \in processed_files \/ (AtFile(f) /\ pc = "Mark")
            /\ pc \in {"Loop", "Move", "Mark", "Completed"})
    /\ [](pc = "Completed" =>
            /\ Candidates \subseteq processed_files
            /\ Len(events) = Cardinality(handled)
            /\ idx = Len(epub_files) + 1)
    /\ (move_failed # {}) ~> (pc = "Completed")

\* a completed run in which the move of the first candidate failed and the
\* second candidate was relocated
C6_Witness ==
    /\ pc = "Completed"
    /\ Len(epub_files) = 2
    /\ epub_files[1] \in move_failed
    /\ loc[epub_files[2]] = "dst"

(* ------------------------------- C8 ----------------------------------- *)
\* no regular file with the extension, in any case, directly in the folder
NoEpubInSource ==
    \A f \in Files :
        ~(loc[f] = "src" /\ archive[f].is_file
          /\ archive[f].ext \in {".epub", ".EPUB"})

\* C8: a valid press of Start on a folder with no .epub file, or whose scan
\* lists nothing, ends as "nothing to do" with no report, no file handled
\* or moved and the processed set as it was; and a report exists only in
\* runs whose candidate list is not empty.
C8_NothingToDo ==
    /\ [][(runs' = runs + 1 /\ pc' # "Aborted"
           /\ (NoEpubInSource \/ epub_files' = <<>>))
          => /\ pc' = "Nothing"
             /\ csv' = <<>>
             /\ handled' = {}
             /\ move_calls' = {}
             /\ events' = <<>>
             /\ loc' = loc
             /\ processed_files' = processed_files]_vars
    /\ [](csv # <<>> => epub_files # <<>>)

\* a run that found nothing in a folder holding only a directory named like
\* a book, after an earlier run on the same instance
C8_Witness ==
    /\ pc = "Nothing"
    /\ NoEpubInSource
    /\ \E f \in Files : loc[f] = "src" /\ ~archive[f].is_file
    /\ processed_files # {}

(* ------------------------------- C9 ----------------------------------- *)
\* C9: a run that ends because the report cannot be opened has handled,
\* read and moved no file, emitted no progress event, shown no dialog, and
\* left the processed set and every file as they were.
C9_OpenFailure ==
    [][pc' = "Failed"
       => /\ csv' = <<>>
          /\ handled' = {}
          /\ opened' = {}
          /\ move_calls' = {}
          /\ events' = <<>>
          /\ dialogs' = <<>>
          /\ loc' = loc
          /\ processed_files' = processed_files]_vars

\* a run over two candidates that failed to open its report
C9_Witness ==
    /\ pc = "Failed"
    /\ Len(epub_files) = 2
    /\ processed_files = {}

====
